---------------------------- MODULE Spec2Model ----------------------------
(***************************************************************************)
(* A model of assignment_3/templates/a3_nf_template.py: the RealNVP-style  *)
(* normalizing flow (get_mask, Coupling, Flow, Model) and the calls the    *)
(* training driver makes on it (Model.forward, Model.sample,               *)
(* optimizer.step).                                                        *)
(*                                                                         *)
(* Numbers.  The program computes with float32 tensors.  The model         *)
(* computes with exact rationals <<n, d>> in lowest terms (d > 0), so the  *)
(* algebra of the code is checked and floating-point rounding is not.      *)
(* To keep every value rational the transcendental functions are taken to  *)
(* base 2 and evaluated on the integer lattice:                            *)
(*    Exp(k)     = 2^k                    (k an integer)                   *)
(*    Log(q)     = floor(log2 q)          (so Log(256) = 8)                *)
(*    Tanh(h)    = h truncated toward 0 and clamped to -1 .. 1             *)
(*    Sigmoid(q) = 2^k / (2^k + 1), k = floor(q) clamped to +-SigSat       *)
(* Log rounds, so Sigmoid and the logit are not inverse to each other in   *)
(* the model; Exp(-k) * Exp(k) = 1, Exp(0) = 1 and Tanh(0) = 0 are exact.  *)
(*                                                                         *)
(* Tensors.  A batch is modelled by one example: a tensor of shape (B, D)  *)
(* is a function 1..D -> Rat and a tensor of shape (B,) is one Rat; every  *)
(* operation of the program acts on the examples of a batch separately.    *)
(***************************************************************************)
EXTENDS Integers, Sequences, FiniteSets, TLC

VARIABLES
    layers,   \* Flow.layers: the coupling layers (mask and network parameters)
    pc,       \* position of the single thread of control
    mode,     \* which entry point is running: "forward", "sample", "flow", "coupling"
    z,        \* the tensor z / x_hat of the running call
    ldj,      \* the tensor ldj / logdet of the running call
    reverse,  \* the reverse argument of the running Flow.forward
    todo,     \* Flow.forward's loop: the layers still to be applied, in order
    calls,    \* the layer calls made by the running Flow.forward: <<index, reverse>>
    args,     \* the arguments (z, ldj) the running call was given
    out,      \* the value the last finished call returned
    hist,     \* the direct calls finished since the parameters last changed
    ncalls    \* the number of calls made so far, counted up to MaxCalls

vars == <<layers, pc, mode, z, ldj, reverse, todo, calls, args, out, hist, ncalls>>

---------------------------------------------------------------------------
(* Bounds of the model.                                                    *)

ImgSide == 2      \* side of the image (28 in get_mask)
NHidden == 1      \* width of the hidden layers (n_hidden = 1024)
NFlows == 2       \* n_flows: the flow holds 2 * NFlows coupling layers
CIn == 3          \* c_in of the coupling layer that is called on its own
NSeeds == 2       \* number of parameter settings an optimizer step can reach
NInputs == 3      \* number of input vectors drawn for a direct call
NoiseDen == 3     \* torch.rand_like draws from {0, 1/NoiseDen, .., (NoiseDen-1)/NoiseDen}
MaxCalls == 2     \* number of calls that are counted
SigSat == 5       \* the lattice sigmoid saturates at +-SigSat

(* Constants of the program.                                               *)
PixelLevels == 256        \* z / 256., z * 256., np.log(256)
AlphaDen == 100000        \* alpha = 1e-5 = 1 / AlphaDen

D == ImgSide * ImgSide    \* 28 * 28 = 784, the shape the Model is built with
Dims == 1..D

---------------------------------------------------------------------------
(* Exact rational arithmetic.  NaN == <<0, 0>> is what a domain error      *)
(* (the log of a number <= 0) yields; it absorbs every operation.          *)

Abs(a) == IF a < 0 THEN -a ELSE a

RECURSIVE GCD(_, _)
GCD(a, b) == IF b = 0 THEN a ELSE GCD(b, a % b)

NaN == <<0, 0>>
IsNaN(p) == p[2] = 0

Rat(n, d) == LET g == GCD(Abs(n), d) IN <<n \div g, d \div g>>
RI(k) == <<k, 1>>
Zero == RI(0)
One == RI(1)

RNeg(p) == <<-p[1], p[2]>>
RAdd(p, q) ==
    IF IsNaN(p) \/ IsNaN(q) THEN NaN
    ELSE LET g == GCD(p[2], q[2])
             m == (p[2] \div g) * q[2]
         IN  Rat(p[1] * (m \div p[2]) + q[1] * (m \div q[2]), m)
RSub(p, q) == RAdd(p, RNeg(q))
RMul(p, q) ==
    IF IsNaN(p) \/ IsNaN(q) THEN NaN
    ELSE IF p[1] = 0 \/ q[1] = 0 THEN Zero
    ELSE LET g1 == GCD(Abs(p[1]), q[2])
             g2 == GCD(Abs(q[1]), p[2])
         IN  <<(p[1] \div g1) * (q[1] \div g2), (p[2] \div g2) * (q[2] \div g1)>>
RPos(p) == p[2] > 0 /\ p[1] > 0
RLess(p, q) == ~IsNaN(p) /\ ~IsNaN(q) /\ RPos(RSub(q, p))
Floor(p) == p[1] \div p[2]

RECURSIVE Pow2(_)
Pow2(k) == IF k = 0 THEN 1 ELSE 2 * Pow2(k - 1)

\* floor(log2 n) and ceil(log2 n) of an integer n >= 1
RECURSIVE FloorLog2(_)
FloorLog2(n) == IF n < 2 THEN 0 ELSE 1 + FloorLog2(n \div 2)
CeilLog2(n) == IF n < 2 THEN 0 ELSE 1 + FloorLog2(n - 1)

\* A tensor held as the explicit tuple of its elements: f @@ <<>> is f, and
\* TLC then computes each element once.
Tensor(f) == f @@ <<>>

\* The value b, with a computed first.  TLC computes a definition when its
\* value is first used; computing the operands of an operation before the
\* operation keeps the depth of its recursion small.
After(a, b) == <<a, b>>[2]

\* the sum f[1] + .. + f[n]
RECURSIVE SumTo(_, _)
SumTo(f, n) ==
    IF n = 0 THEN Zero
    ELSE LET s == SumTo(f, n - 1) IN After(s, RAdd(s, f[n]))

---------------------------------------------------------------------------
(* The functions of torch and numpy the program calls.                     *)

\* torch.exp on the lattice
Exp(p) == IF p[1] >= 0 THEN RI(Pow2(p[1])) ELSE <<1, Pow2(-p[1])>>

\* torch.log / np.log on the lattice; the log of a number <= 0 is a domain error
Log(p) ==
    IF ~RPos(p) THEN NaN
    ELSE IF p[1] >= p[2] THEN RI(FloorLog2(p[1] \div p[2]))
    ELSE RI(-CeilLog2((p[2] + p[1] - 1) \div p[1]))

\* torch.tanh on the lattice: odd, monotone, tanh(0) = 0, bounded by 1
Tanh(p) == IF ~RLess(p, One) THEN One
           ELSE IF ~RLess(RNeg(One), p) THEN RNeg(One)
           ELSE Zero

\* torch.sigmoid on the lattice
Sigmoid(p) ==
    LET f == Floor(p)
        k == IF f > SigSat THEN SigSat ELSE IF f < -SigSat THEN -SigSat ELSE f
    IN  IF k >= 0 THEN Rat(Pow2(k), Pow2(k) + 1) ELSE Rat(1, 1 + Pow2(-k))

\* nn.ReLU
Relu(p) == IF RPos(p) THEN p ELSE Zero

\* torch.sum(v, dim=1) of a tensor with c elements per example
SumDim1(v, c) == LET t == Tensor(v) IN After(t, SumTo(t, c))

\* nn.ReLU() on a tensor with n elements per example
ReluAll(v, n) == After(v, Tensor([h \in 1..n |-> Relu(v[h])]))

\* nn.Linear(nin, nout) with weight W and bias b
Linear(W, b, v, nin, nout) ==
    After(v, Tensor([o \in 1..nout |->
        RAdd(SumDim1([i \in 1..nin |-> RMul(RI(W[o][i]), v[i])], nin),
             RI(b[o]))]))

---------------------------------------------------------------------------
(* Tensor helpers: a tensor of c elements is a function 1..c -> Rat.       *)

ZerosVec(c) == Tensor([i \in 1..c |-> Zero])

---------------------------------------------------------------------------
(* get_mask and the parameters of a coupling layer.                        *)

\* get_mask(): the checkerboard over the image, flattened row by row
GetMask ==
    [p \in Dims |->
        IF (((p - 1) \div ImgSide) + ((p - 1) % ImgSide)) % 2 = 0 THEN 1 ELSE 0]

\* 1 - mask
Complement(mask) == [i \in DOMAIN mask |-> 1 - mask[i]]

\* One weight of parameter setting s: a value in -1 .. 1.  Setting s stands
\* for the values a random initialisation or a run of optimizer steps leaves.
Wt(s, a, b) == ((s * s + 3 * a + 5 * b + s * a * b) % 3) - 1

\* The parameters of the three nn.Linear layers under setting s.
Weights(c, s) ==
    [W1 |-> [h \in 1..NHidden |-> [i \in 1..c |-> Wt(s, h, i)]],
     b1 |-> [h \in 1..NHidden |-> Wt(s + 1, h, 0)],
     W2 |-> [h \in 1..NHidden |-> [g \in 1..NHidden |-> Wt(s + 2, h, g)]],
     b2 |-> [h \in 1..NHidden |-> Wt(s + 3, h, 1)],
     W3 |-> [o \in 1..(2 * c) |-> [h \in 1..NHidden |-> Wt(s + 4, o, h)]],
     b3 |-> [o \in 1..(2 * c) |-> Wt(s + 5, o, 2)]]

\* Mutant of ZeroLast: only the weight is set to zero, the bias keeps its
\* random initialisation.
ZeroLastWeightOnly(c, w) ==
    [w EXCEPT !.W3 = [o \in 1..(2 * c) |-> [h \in 1..NHidden |-> 0]]]

\* The last nn.Linear after weight.data.zero_() and bias.data.zero_()
ZeroLast(c, w) ==
    [w EXCEPT !.W3 = [o \in 1..(2 * c) |-> [h \in 1..NHidden |-> 0]],
              !.b3 = [o \in 1..(2 * c) |-> 0]]

\* Coupling.__init__(c_in, mask): the network is initialised at random
\* (setting s) and its last layer is then set to zero.
CouplingInit(c, mask, s) ==
    [c_in |-> c, mask |-> mask, nn |-> ZeroLast(c, Weights(c, s))]

\* optimizer.step(): every parameter of the layer may change; the mask is a
\* buffer and does not.
Trained(layer, s) == [layer EXCEPT !.nn = Weights(layer.c_in, s)]

---------------------------------------------------------------------------
(* Coupling.forward                                                        *)

\* Mutant of MaskedInput: the network is given the whole of z.
MaskedInputWhole(mask, zz) == zz

\* self.mask * z
MaskedInput(mask, zz) == Tensor([i \in DOMAIN zz |-> RMul(RI(mask[i]), zz[i])])

\* self.nn: Linear, ReLU, Linear, ReLU, Linear
Network(layer, v) ==
    Linear(layer.nn.W3, layer.nn.b3,
        ReluAll(Linear(layer.nn.W2, layer.nn.b2,
            ReluAll(Linear(layer.nn.W1, layer.nn.b1, v, layer.c_in, NHidden),
                    NHidden),
            NHidden, NHidden), NHidden),
        NHidden, 2 * layer.c_in)

\* o.split(self.c_in, dim=1) of the network's output o, and
\* log_scale = torch.tanh(h)
Split(o, c) ==
    After(o, [log_scale |-> Tensor([i \in 1..c |-> Tanh(o[i])]),
              t         |-> Tensor([i \in 1..c |-> o[c + i]])])

\* h, t = self.nn(self.mask * z).split(self.c_in, dim=1); log_scale = tanh(h)
ShiftScale(layer, zz) ==
    Split(Network(layer, MaskedInput(layer.mask, zz)), layer.c_in)

\* z = self.mask * z + (1 - self.mask) * (z * torch.exp(log_scale) + t)
ForwardZ(mask, zz, log_scale, t) ==
    Tensor([i \in DOMAIN zz |->
        RAdd(RMul(RI(mask[i]), zz[i]),
             RMul(RI(1 - mask[i]), RAdd(RMul(zz[i], Exp(log_scale[i])), t[i])))])

\* torch.sum((1 - self.mask) * log_scale, dim=1)
LdjIncrement(mask, log_scale, c) ==
    SumDim1([i \in 1..c |-> RMul(RI(1 - mask[i]), log_scale[i])], c)

\* Mutant of InverseZ: the inverse scales by exp(log_scale), as the forward
\* direction does.
InverseZSameScale(mask, zz, log_scale, t) ==
    Tensor([i \in DOMAIN zz |->
        RAdd(RMul(RI(mask[i]), zz[i]),
             RMul(RMul(RI(1 - mask[i]), RSub(zz[i], t[i])),
                  Exp(log_scale[i])))])

\* z = self.mask * z + (1 - self.mask) * (z - t) * torch.exp(-log_scale)
InverseZ(mask, zz, log_scale, t) ==
    Tensor([i \in DOMAIN zz |->
        RAdd(RMul(RI(mask[i]), zz[i]),
             RMul(RMul(RI(1 - mask[i]), RSub(zz[i], t[i])),
                  Exp(RNeg(log_scale[i]))))])

\* Mutant of Affine: the inverse direction takes the log-scales off ldj.
AffineLdjBothWays(layer, zz, l, rev, st) ==
    After(st,
        IF ~rev
        THEN [z   |-> ForwardZ(layer.mask, zz, st.log_scale, st.t),
              ldj |-> RAdd(l, LdjIncrement(layer.mask, st.log_scale, layer.c_in))]
        ELSE [z   |-> InverseZ(layer.mask, zz, st.log_scale, st.t),
              ldj |-> RSub(l, LdjIncrement(layer.mask, st.log_scale, layer.c_in))])

\* if not reverse: .. else: .. with the log_scale and t of st
Affine(layer, zz, l, rev, st) ==
    After(st,
        IF ~rev
        THEN [z   |-> ForwardZ(layer.mask, zz, st.log_scale, st.t),
              ldj |-> RAdd(l, LdjIncrement(layer.mask, st.log_scale, layer.c_in))]
        ELSE [z   |-> InverseZ(layer.mask, zz, st.log_scale, st.t),
              ldj |-> l])

\* Coupling.forward(z, ldj, reverse): the pair (z, ldj) it returns
CouplingForward(layer, zz, l, rev) ==
    Affine(layer, zz, l, rev, ShiftScale(layer, zz))

---------------------------------------------------------------------------
(* Flow                                                                    *)

\* Mutant of FlowLayerMask: both layers of a pair are given the same mask.
FlowLayerMaskSame(p) == GetMask

\* The mask Flow.__init__ gives the layer at list position p (from 0): the
\* loop appends Coupling(mask) and then Coupling(1 - mask).
FlowLayerMask(p) == IF p % 2 = 0 THEN GetMask ELSE Complement(GetMask)

\* Flow.__init__(shape, n_flows): the ModuleList, as a sequence (list
\* position p is index p + 1); s is the setting of the random initialisation.
FlowInit(s) ==
    [j \in 1..(2 * NFlows) |-> CouplingInit(D, FlowLayerMask(j - 1), s + j)]

\* Mutant of FlowOrder: the reverse direction visits the layers in
\* construction order too.
FlowOrderNotReversed(n, rev) == [k \in 1..n |-> k]

\* for layer in self.layers / for layer in reversed(self.layers): the
\* indices of the layers in the order the loop visits them
FlowOrder(n, rev) ==
    IF ~rev THEN [k \in 1..n |-> k] ELSE [k \in 1..n |-> n + 1 - k]

---------------------------------------------------------------------------
(* Model                                                                   *)

Alpha == Rat(1, AlphaDen)                    \* alpha = 1e-5
Half == Rat(1, 2)                            \* 0.5
TwoPi == Rat(710, 113)                       \* 2 * np.pi

\* torch.zeros(z.size(0)): a new tensor
ZerosLdj == Zero

\* dequantize: z + torch.rand_like(z)
Dequantize(zz, u) == Tensor([i \in DOMAIN zz |-> RAdd(zz[i], u[i])])

\* z = z / 256.
RescaleZ(zz) == Tensor([i \in DOMAIN zz |-> RMul(zz[i], Rat(1, PixelLevels))])

\* Mutant of RescaleLdj: the term is not multiplied by the number of
\* dimensions.
RescaleLdjOneDim(l, c) == RSub(l, Log(RI(PixelLevels)))

\* logdet -= np.log(256) * np.prod(z.size()[1:])
RescaleLdj(l, c) == RSub(l, RMul(Log(RI(PixelLevels)), RI(c)))

\* Mutant of ShrinkZ: the shrink is not recentred by alpha * 0.5.
ShrinkZNoOffset(zz) ==
    Tensor([i \in DOMAIN zz |-> RMul(zz[i], RSub(One, Alpha))])

\* z = z * (1 - alpha) + alpha * 0.5
ShrinkZ(zz) ==
    Tensor([i \in DOMAIN zz |->
        RAdd(RMul(zz[i], RSub(One, Alpha)), RMul(Alpha, Half))])

\* logdet += torch.sum(-torch.log(z) - torch.log(1 - z), dim=1)
LogitLdj(l, zz, c) ==
    RAdd(l, SumDim1([i \in 1..c |->
                        RSub(RNeg(Log(zz[i])), Log(RSub(One, zz[i])))], c))

\* z = torch.log(z) - torch.log(1 - z)
LogitZ(zz) ==
    Tensor([i \in DOMAIN zz |-> RSub(Log(zz[i]), Log(RSub(One, zz[i])))])

\* z = torch.sigmoid(z)
SigmoidZ(zz) == Tensor([i \in DOMAIN zz |-> Sigmoid(zz[i])])

\* logdet += torch.sum(torch.log(z) + torch.log(1 - z), dim=1)
SigmoidLdj(l, zz, c) ==
    RAdd(l, SumDim1([i \in 1..c |->
                        RAdd(Log(zz[i]), Log(RSub(One, zz[i])))], c))

\* z = (z - alpha * 0.5) / (1 - alpha)
UnshrinkZ(zz) ==
    Tensor([i \in DOMAIN zz |->
        RMul(RSub(zz[i], RMul(Alpha, Half)), Rat(AlphaDen, AlphaDen - 1))])

\* logdet += np.log(256) * np.prod(z.size()[1:])
UnscaleLdj(l, c) == RAdd(l, RMul(Log(RI(PixelLevels)), RI(c)))

\* z = z * 256.
UnscaleZ(zz) == Tensor([i \in DOMAIN zz |-> RMul(zz[i], RI(PixelLevels))])

\* log_prior: torch.sum(-0.5 * np.log(2 * np.pi) - 0.5 * x.pow(2), dim=1)
LogPrior(x) ==
    SumDim1([i \in DOMAIN x |->
                RSub(RMul(RNeg(Half), Log(TwoPi)),
                     RMul(Half, RMul(x[i], x[i])))], D)

---------------------------------------------------------------------------
(* The calls from entry to return, as functions of their arguments.        *)

\* Flow.forward(z, logdet, reverse) on the layers L: R[k] is (z, logdet)
\* after k iterations of the loop
FlowForward(L, zz, l, rev) ==
    LET order == FlowOrder(Len(L), rev)
        R[k \in 0..Len(L)] ==
            IF k = 0 THEN [z |-> zz, ldj |-> l]
            ELSE LET prev == R[k - 1]
                 IN  After(prev, CouplingForward(L[order[k]], prev.z, prev.ldj, rev))
    IN  R[Len(L)]

\* The logit and its term of logdet, of the shrunk z2 and the logdet l1 so far
Logit(z2, l1) ==
    After(z2, [z |-> LogitZ(z2), ldj |-> LogitLdj(l1, z2, D)])

\* Model.logit_normalize(z, logdet, reverse=False)
LogitNormalize(zz, l) ==
    Logit(ShrinkZ(RescaleZ(zz)), RescaleLdj(l, D))

\* The steps of the reverse direction after z = torch.sigmoid(z), on that z
Unscale(s, l) ==
    After(s, [z   |-> UnscaleZ(UnshrinkZ(s)),
              ldj |-> UnscaleLdj(SigmoidLdj(l, s, D), D)])

\* Model.logit_normalize(z, logdet, reverse=True)
LogitNormalizeReverse(zz, l) ==
    Unscale(SigmoidZ(zz), l)

\* z, ldj = self.flow(z, ldj[, reverse=True]) on the pair n = (z, ldj)
FlowOn(L, n, rev) == After(n, FlowForward(L, n.z, n.ldj, rev))

\* log_pz = log_prior(z); log_px = log_pz + ldj, of the pair f = (z, ldj)
LogPx(f) == After(f, RAdd(LogPrior(f.z), f.ldj))

\* x_hat, ldj = self.logit_normalize(x_hat, ldj, reverse=True) on the pair f
Unnormalize(f) == After(f, LogitNormalizeReverse(f.z, f.ldj))

\* Model.forward(input) with the noise u drawn by dequantize: log_px
ModelForward(L, x, u) ==
    LogPx(FlowOn(L, LogitNormalize(Dequantize(x, u), ZerosLdj), FALSE))

\* Model.sample with the prior sample zp: x_hat and the ldj it ends with
ModelSample(L, zp) ==
    Unnormalize(FlowForward(L, zp, ZerosLdj, TRUE))

---------------------------------------------------------------------------
(* The inputs the calls are given.                                         *)

None == <<>>

\* Batches of the data loader: every pixel value 0 .. 255 occurs at every
\* position of some vector.
PixelVecs ==
    {[i \in Dims |-> RI((s * D + i - 1) % PixelLevels)] :
        s \in 0..((PixelLevels - 1) \div D)}

\* torch.rand_like: uniform in [0, 1), on the grid of NoiseDen points
NoiseVecs ==
    {[i \in Dims |-> Rat((s + i) % NoiseDen, NoiseDen)] : s \in 0..(NoiseDen - 1)}

\* Vectors of c reals (sample_prior's torch.randn, or the argument of a
\* direct call): integers and halves of either sign.
InVal(s, i) == Rat(((s * i + 2 * s) % 7) - 3, 1 + (s % 2))
InputVecs(c) == {[i \in 1..c |-> InVal(s, i)] : s \in 1..NInputs}

\* The ldj a direct call is given: a new tensor of zeros, or the ldj the
\* caller has accumulated so far
LdjArgs == {ZerosLdj, ldj}

Settings == 1..NSeeds

---------------------------------------------------------------------------
(* Flow.forward, one layer per step.                                       *)

\* Entering Flow.forward(z, logdet, reverse)
EnterFlow(rev) ==
    /\ reverse' = rev
    /\ todo' = FlowOrder(Len(layers), rev)
    /\ calls' = <<>>
    /\ pc' = "flow"

\* Mutant of FlowStep: the reverse loop calls layer(z, logdet) without
\* reverse=True.
FlowStepNoReverseFlag ==
    /\ pc = "flow"
    /\ todo # <<>>
    /\ LET r == CouplingForward(layers[Head(todo)], z, ldj, FALSE)
       IN  /\ z' = r.z
           /\ ldj' = r.ldj
    /\ calls' = Append(calls, <<Head(todo), FALSE>>)
    /\ todo' = Tail(todo)
    /\ UNCHANGED <<layers, pc, mode, reverse, args, out, hist, ncalls>>

\* One iteration of the loop: z, logdet = layer(z, logdet[, reverse=True])
FlowStep ==
    /\ pc = "flow"
    /\ todo # <<>>
    /\ LET r == CouplingForward(layers[Head(todo)], z, ldj, reverse)
       IN  /\ z' = r.z
           /\ ldj' = r.ldj
    /\ calls' = Append(calls, <<Head(todo), reverse>>)
    /\ todo' = Tail(todo)
    /\ UNCHANGED <<layers, pc, mode, reverse, args, out, hist, ncalls>>

\* return z, logdet: to Model.forward, to Model.sample or to a direct caller
FlowReturn ==
    /\ pc = "flow"
    /\ todo = <<>>
    /\ pc' = CASE mode = "forward" -> "prior"
               [] mode = "sample"  -> "sigmoid"
               [] OTHER            -> "idle"
    /\ IF mode = "flow"
       THEN /\ out' = [z |-> z, ldj |-> ldj]
            /\ hist' = Append(hist, [rev |-> reverse, zin |-> args.z,
                                     ldjin |-> args.ldj, zout |-> z, ldjout |-> ldj])
       ELSE UNCHANGED <<out, hist>>
    /\ UNCHANGED <<layers, mode, z, ldj, reverse, todo, calls, args, ncalls>>

---------------------------------------------------------------------------
(* Model.forward                                                           *)

\* One more call of the model
Counted(n) == IF n < MaxCalls THEN n + 1 ELSE n

\* Mutant of ModelForwardBegin: ldj is not created anew, the tensor of the
\* call before is used again.
ModelForwardBeginStaleLdj(x) ==
    /\ pc = "idle"
    /\ mode' = "forward"
    /\ z' = x
    /\ args' = [z |-> x, noise |-> None]
    /\ pc' = "dequantize"
    /\ reverse' = FALSE
    /\ todo' = <<>>
    /\ calls' = <<>>
    /\ out' = None
    /\ ncalls' = Counted(ncalls)
    /\ UNCHANGED <<layers, ldj, hist>>

\* z = input; ldj = torch.zeros(z.size(0))
ModelForwardBegin(x) ==
    /\ pc = "idle"
    /\ mode' = "forward"
    /\ z' = x
    /\ ldj' = ZerosLdj
    /\ args' = [z |-> x, noise |-> None]
    /\ pc' = "dequantize"
    /\ reverse' = FALSE
    /\ todo' = <<>>
    /\ calls' = <<>>
    /\ out' = None
    /\ ncalls' = Counted(ncalls)
    /\ UNCHANGED <<layers, hist>>

\* z = self.dequantize(z)
ModelDequantize(u) ==
    /\ pc = "dequantize"
    /\ z' = Dequantize(z, u)
    /\ args' = [args EXCEPT !.noise = u]
    /\ pc' = "rescale"
    /\ UNCHANGED <<layers, mode, ldj, reverse, todo, calls, out, hist, ncalls>>

\* logit_normalize, reverse=False: z = z / 256. and its term of logdet
NormRescale ==
    /\ pc = "rescale"
    /\ z' = RescaleZ(z)
    /\ ldj' = RescaleLdj(ldj, D)
    /\ pc' = "shrink"
    /\ UNCHANGED <<layers, mode, reverse, todo, calls, args, out, hist, ncalls>>

\* logit_normalize, reverse=False: z = z * (1 - alpha) + alpha * 0.5
NormShrink ==
    /\ pc = "shrink"
    /\ z' = ShrinkZ(z)
    /\ pc' = "logit"
    /\ UNCHANGED <<layers, mode, ldj, reverse, todo, calls, args, out, hist, ncalls>>

\* logit_normalize, reverse=False: the logit and its term of logdet; then
\* z, ldj = self.flow(z, ldj)
NormLogit ==
    /\ pc = "logit"
    /\ ldj' = LogitLdj(ldj, z, D)
    /\ z' = LogitZ(z)
    /\ EnterFlow(FALSE)
    /\ UNCHANGED <<layers, mode, args, out, hist, ncalls>>

\* log_pz = log_prior(z); log_px = log_pz + ldj; return log_px
ModelForwardEnd ==
    /\ pc = "prior"
    /\ out' = RAdd(LogPrior(z), ldj)
    /\ pc' = "idle"
    /\ UNCHANGED <<layers, mode, z, ldj, reverse, todo, calls, args, hist, ncalls>>

---------------------------------------------------------------------------
(* Model.sample                                                            *)

\* z = sample_prior(..); ldj = torch.zeros(z.size(0));
\* x_hat, ldj = self.flow(z, ldj, reverse=True)
ModelSampleBegin(zp) ==
    /\ pc = "idle"
    /\ mode' = "sample"
    /\ z' = zp
    /\ ldj' = ZerosLdj
    /\ args' = [z |-> zp]
    /\ EnterFlow(TRUE)
    /\ out' = None
    /\ ncalls' = Counted(ncalls)
    /\ UNCHANGED <<layers, hist>>

\* logit_normalize, reverse=True: the sigmoid, its term of logdet, and
\* z = (z - alpha * 0.5) / (1 - alpha)
InvSigmoid ==
    /\ pc = "sigmoid"
    /\ LET s == SigmoidZ(z)
       IN  /\ ldj' = SigmoidLdj(ldj, s, D)
           /\ z' = UnshrinkZ(s)
    /\ pc' = "unscale"
    /\ UNCHANGED <<layers, mode, reverse, todo, calls, args, out, hist, ncalls>>

\* logit_normalize, reverse=True: logdet += np.log(256) * D; z = z * 256.
InvRescale ==
    /\ pc = "unscale"
    /\ ldj' = UnscaleLdj(ldj, D)
    /\ z' = UnscaleZ(z)
    /\ pc' = "sampled"
    /\ UNCHANGED <<layers, mode, reverse, todo, calls, args, out, hist, ncalls>>

\* return x_hat
ModelSampleEnd ==
    /\ pc = "sampled"
    /\ out' = z
    /\ pc' = "idle"
    /\ UNCHANGED <<layers, mode, z, ldj, reverse, todo, calls, args, hist, ncalls>>

---------------------------------------------------------------------------
(* The driver                                                              *)

\* optimizer.step() (epoch_iter): between two calls the parameters of every
\* layer move to another setting.  What the last call returned has been
\* consumed by then.
OptimizerStep(s) ==
    /\ pc = "idle"
    /\ layers' = [j \in DOMAIN layers |-> Trained(layers[j], s + j)]
    /\ layers' # layers
    /\ out' = None
    /\ hist' = <<>>
    /\ UNCHANGED <<pc, mode, z, ldj, reverse, todo, calls, args, ncalls>>

\* A direct call flow(z, l0, reverse=rev) on the tensor z at hand
FlowCall(rev, l0) ==
    /\ pc = "idle"
    /\ mode = "flow"
    /\ ncalls < MaxCalls
    /\ ncalls' = ncalls + 1
    /\ ldj' = l0
    /\ args' = [z |-> z, ldj |-> l0]
    /\ EnterFlow(rev)
    /\ out' = None
    /\ UNCHANGED <<layers, mode, z, hist>>

\* A direct call layer(z, l0, reverse=rev) of a coupling layer on the tensor
\* z at hand: Coupling.forward from entry to return
CouplingCall(rev, l0) ==
    /\ pc = "idle"
    /\ mode = "coupling"
    /\ ncalls < MaxCalls
    /\ ncalls' = ncalls + 1
    /\ LET r == CouplingForward(layers[1], z, l0, rev)
       IN  /\ z' = r.z
           /\ ldj' = r.ldj
           /\ out' = r
           /\ hist' = Append(hist, [rev |-> rev, zin |-> z, ldjin |-> l0,
                                    zout |-> r.z, ldjout |-> r.ldj])
    /\ args' = [z |-> z, ldj |-> l0]
    /\ UNCHANGED <<layers, pc, mode, reverse, todo, calls>>

---------------------------------------------------------------------------
(* Specifications                                                          *)

\* The Model after Model.__init__: the image model and its driver
Init ==
    /\ layers \in {FlowInit(s) : s \in Settings}
    /\ pc = "idle"
    /\ mode = "idle"
    /\ z = ZerosVec(D)
    /\ ldj = Zero
    /\ reverse = FALSE
    /\ todo = <<>>
    /\ calls = <<>>
    /\ args = None
    /\ out = None
    /\ hist = <<>>
    /\ ncalls = 0

Next ==
    \/ \E x \in PixelVecs : ModelForwardBegin(x)
    \/ \E u \in NoiseVecs : ModelDequantize(u)
    \/ NormRescale
    \/ NormShrink
    \/ NormLogit
    \/ FlowStep
    \/ FlowReturn
    \/ ModelForwardEnd
    \/ \E zp \in InputVecs(D) : ModelSampleBegin(zp)
    \/ InvSigmoid
    \/ InvRescale
    \/ ModelSampleEnd
    \/ \E s \in Settings : OptimizerStep(s)

Spec == Init /\ [][Next]_vars

\* A Flow after Flow.__init__, called directly on a tensor
InitFlow ==
    /\ layers \in {FlowInit(s) : s \in Settings}
    /\ pc = "idle"
    /\ mode = "flow"
    /\ z \in InputVecs(D)
    /\ ldj = Zero
    /\ reverse = FALSE
    /\ todo = <<>>
    /\ calls = <<>>
    /\ args = None
    /\ out = None
    /\ hist = <<>>
    /\ ncalls = 0

NextFlow ==
    \/ \E rev \in BOOLEAN, l0 \in LdjArgs : FlowCall(rev, l0)
    \/ FlowStep
    \/ FlowReturn
    \/ \E s \in Settings : OptimizerStep(s)

SpecFlow == InitFlow /\ [][NextFlow]_vars

\* A Coupling after Coupling.__init__(CIn, mask), for every mask in {0,1}^CIn,
\* called directly on a tensor
InitCoupling ==
    /\ layers \in {<<CouplingInit(CIn, m, s)>> :
                      m \in [1..CIn -> {0, 1}], s \in Settings}
    /\ pc = "idle"
    /\ mode = "coupling"
    /\ z \in InputVecs(CIn)
    /\ ldj = Zero
    /\ reverse = FALSE
    /\ todo = <<>>
    /\ calls = <<>>
    /\ args = None
    /\ out = None
    /\ hist = <<>>
    /\ ncalls = 0

NextCoupling ==
    \/ \E rev \in BOOLEAN, l0 \in LdjArgs : CouplingCall(rev, l0)
    \/ \E s \in Settings : OptimizerStep(s)

SpecCoupling == InitCoupling /\ [][NextCoupling]_vars

---------------------------------------------------------------------------
(* Properties                                                              *)

\* Two direct calls in a row: the second was given the z the first returned
\* (hist holds only calls made under the parameters of the moment).
Chained(k) == k + 1 <= Len(hist) /\ hist[k + 1].zin = hist[k].zout

\* The dimensions a mask leaves to be transformed
Free(mask) == {i \in DOMAIN mask : mask[i] = 0}

(* C1: Flow.forward with reverse=False from ldj 0, followed by Flow.forward *)
(* with reverse=True on the z it returned, under the same parameters,      *)
(* returns the original z in every dimension.                              *)
C1_FlowInverts ==
    \A k \in 1..Len(hist) :
        (mode = "flow" /\ Chained(k) /\ ~hist[k].rev /\ hist[k].ldjin = Zero
            /\ hist[k + 1].rev)
        => hist[k + 1].zout = hist[k].zin

\* A round trip through a flow that moved every dimension of z
C1_Witness ==
    /\ mode = "flow"
    /\ Len(hist) >= 2
    /\ ~hist[1].rev /\ hist[1].ldjin = Zero /\ hist[2].rev
    /\ \A i \in Dims : hist[1].zout[i] # hist[1].zin[i]

(* C2: for one Coupling layer with any mask and any parameters, forward    *)
(* followed by inverse, and inverse followed by forward, return the        *)
(* original z.                                                             *)
C2_CouplingInverts ==
    \A k \in 1..Len(hist) :
        (mode = "coupling" /\ Chained(k) /\ hist[k].rev # hist[k + 1].rev)
        => hist[k + 1].zout = hist[k].zin

\* inverse then forward, of a layer that rescales and shifts z
C2_Witness ==
    /\ mode = "coupling"
    /\ Len(hist) >= 2
    /\ hist[1].rev /\ ~hist[2].rev /\ Chained(1)
    /\ hist[1].zout # hist[1].zin
    /\ hist[2].ldjout # hist[2].ldjin
    /\ \E i \in 1..CIn : ShiftScale(layers[1], hist[1].zin).t[i] # Zero

(* C3: Flow.forward applies the layers in construction order when          *)
(* reverse=False and in the reversed order, each with reverse=True, when   *)
(* reverse=True; a finished call has applied every layer exactly once.     *)
C3_LayerOrder ==
    mode = "flow" =>
        /\ \A k \in 1..Len(calls) :
              calls[k] = IF reverse THEN <<2 * NFlows + 1 - k, TRUE>>
                                    ELSE <<k, FALSE>>
        /\ (pc = "idle" /\ hist # <<>>) => Len(calls) = 2 * NFlows
        /\ pc = "flow" => Len(calls) + Len(todo) = 2 * NFlows

\* a reverse call that has finished
C3_Witness ==
    /\ mode = "flow" /\ pc = "idle" /\ hist # <<>>
    /\ reverse
    /\ calls[1] = <<2 * NFlows, TRUE>>
    /\ Len(calls) = 2 * NFlows

(* C4: with reverse=True the ldj is not updated: after each layer of a     *)
(* reverse Flow.forward, and when the call returns, ldj is the ldj the     *)
(* call was given.                                                         *)
C4_ReverseKeepsLdj ==
    mode = "flow" =>
        /\ (pc = "flow" /\ reverse) => ldj = args.ldj
        /\ \A k \in 1..Len(hist) : hist[k].rev => hist[k].ldjout = hist[k].ldjin

\* a reverse call given a non-zero ldj, whose layers rescaled z
C4_Witness ==
    /\ mode = "flow"
    /\ \E k \in 1..Len(hist) :
          /\ hist[k].rev
          /\ hist[k].ldjin # Zero
          /\ FlowForward(layers, hist[k].zout, Zero, FALSE).ldj # Zero

(* C5: a freshly constructed Coupling layer is the identity: forward from  *)
(* ldj 0 returns z unchanged and ldj 0.                                    *)
Fresh == \E s \in Settings : layers[1] = CouplingInit(CIn, layers[1].mask, s)

C5_FreshIsIdentity ==
    (mode = "coupling" /\ Fresh) =>
        \A k \in 1..Len(hist) :
            (~hist[k].rev /\ hist[k].ldjin = Zero)
            => (hist[k].zout = hist[k].zin /\ hist[k].ldjout = Zero)

\* a fresh layer that transforms every dimension, called forward from ldj 0
C5_Witness ==
    /\ mode = "coupling" /\ Fresh
    /\ Free(layers[1].mask) = 1..CIn
    /\ \E k \in 1..Len(hist) :
          /\ ~hist[k].rev /\ hist[k].ldjin = Zero
          /\ \A i \in 1..CIn : hist[k].zin[i] # Zero

(* C6: the flow holds 2 * n_flows layers; the layer at an even list        *)
(* position has the checkerboard mask m and the one at an odd position     *)
(* has 1 - m; m is a checkerboard (cells next to each other in a row or a  *)
(* column differ, the first cell is 1); m + (1 - m) is all ones, so each   *)
(* dimension is transformed (mask = 0) by exactly one layer of each        *)
(* consecutive pair.                                                       *)
C6_MasksAlternate ==
    mode = "flow" =>
        /\ Len(layers) = 2 * NFlows
        /\ \A j \in 1..Len(layers) :
              /\ DOMAIN layers[j].mask = Dims
              /\ \A i \in Dims :
                    layers[j].mask[i] = IF (j - 1) % 2 = 0 THEN GetMask[i]
                                                           ELSE 1 - GetMask[i]
        /\ \A i \in Dims :
              /\ layers[1].mask[i] \in {0, 1}
              /\ (i % ImgSide # 0) => layers[1].mask[i + 1] # layers[1].mask[i]
              /\ (i + ImgSide \in Dims) => layers[1].mask[i + ImgSide] # layers[1].mask[i]
        /\ layers[1].mask[1] = 1
        /\ \A p \in 1..NFlows : \A i \in Dims :
              /\ layers[2 * p - 1].mask[i] + layers[2 * p].mask[i] = 1
              /\ Cardinality({j \in {2 * p - 1, 2 * p} : i \in Free(layers[j].mask)}) = 1

\* a forward call that has applied the first pair of layers and by then
\* changed every dimension of z
C6_Witness ==
    /\ mode = "flow" /\ pc = "flow" /\ ~reverse
    /\ Len(calls) = 2
    /\ \A i \in Dims : z[i] # args.z[i]

(* C7: every Model.forward and every Model.sample starts its ldj at zero;  *)
(* what a call returns (log_px, x_hat) and the ldj it ends with are those  *)
(* of a call that starts from scratch on the same input, noise and         *)
(* parameters: nothing of an earlier call carries over.                    *)
C7_LdjPerCall ==
    /\ pc = "dequantize" => ldj = Zero
    /\ (mode = "sample" /\ pc = "flow" /\ calls = <<>>) => ldj = Zero
    /\ (mode = "forward" /\ pc = "idle" /\ out # None)
          => out = ModelForward(layers, args.z, args.noise)
    /\ (mode = "sample" /\ pc = "idle" /\ out # None)
          => (out = ModelSample(layers, args.z).z /\ ldj = ModelSample(layers, args.z).ldj)

\* a forward call, not the first call of the model, that has returned a
\* number under trained parameters and ends with a non-zero ldj
C7_Witness ==
    /\ mode = "forward" /\ pc = "idle" /\ out # None
    /\ ncalls >= 2
    /\ \A s \in Settings : layers # FlowInit(s)
    /\ ldj # Zero
    /\ ~IsNaN(out)

(* C8: the rescale step of logit_normalize adds -log(256) * D to ldj in    *)
(* the forward direction and +log(256) * D in the reverse direction: each  *)
(* is the negation of the other.                                           *)
C8_RescaleSymmetry ==
    [][/\ pc = "rescale" =>
            /\ RSub(ldj', ldj) = RNeg(RMul(Log(RI(PixelLevels)), RI(D)))
            /\ RSub(ldj', ldj) = RNeg(UnscaleLdj(Zero, D))
       /\ pc = "unscale" =>
            /\ RSub(ldj', ldj) = RMul(Log(RI(PixelLevels)), RI(D))
            /\ RSub(ldj', ldj) = RNeg(RescaleLdj(Zero, D))]_vars

\* the reverse rescale step has just run, in a call that is not the first
\* call of the model, under trained parameters
C8_Witness ==
    /\ pc = "sampled"
    /\ ncalls >= 2
    /\ \A s \in Settings : layers # FlowInit(s)
    /\ ~IsNaN(ldj)

(* C9: in Model.forward, for every pixel value 0 .. 255 and every noise    *)
(* value in [0, 1), the value after the division by 256 and the alpha      *)
(* shrink lies strictly between 0 and 1.                                   *)
C9_InsideUnitInterval ==
    pc = "logit" => \A i \in Dims : RLess(Zero, z[i]) /\ RLess(z[i], One)

\* pixel 0 with noise 0: only the shrink keeps the value off 0
C9_Witness ==
    /\ pc = "logit"
    /\ \E i \in Dims : args.z[i] = Zero /\ args.noise[i] = Zero
                       /\ z[i] = RMul(Alpha, Half)

(* C10: in both directions a Coupling layer returns the dimensions with    *)
(* mask = 1 unchanged; the shift and the log-scale do not depend on the    *)
(* dimensions with mask = 0; forward adds to ldj the sum of log_scale      *)
(* over the dimensions with mask = 0.                                      *)
C10_MaskedHalfDrives ==
    mode = "coupling" =>
        \A k \in 1..Len(hist) :
            LET h    == hist[k]
                mask == layers[1].mask
                st   == ShiftScale(layers[1], h.zin)
            IN  /\ \A i \in 1..CIn : mask[i] = 1 => h.zout[i] = h.zin[i]
                /\ \A i \in Free(mask) : \A v \in {Zero, RI(5), RI(-4)} :
                      ShiftScale(layers[1], [h.zin EXCEPT ![i] = v]) = st
                /\ ~h.rev =>
                      RSub(h.ldjout, h.ldjin) =
                         SumTo([i \in 1..CIn |->
                                   IF i \in Free(mask) THEN st.log_scale[i] ELSE Zero],
                               CIn)

\* a forward call of a layer with kept and transformed dimensions that
\* rescaled and shifted z
C10_Witness ==
    /\ mode = "coupling"
    /\ \E k \in 1..Len(hist) :
          /\ ~hist[k].rev
          /\ Free(layers[1].mask) # {} /\ Free(layers[1].mask) # 1..CIn
          /\ hist[k].ldjout # hist[k].ldjin
          /\ hist[k].zout # hist[k].zin

=============================================================================
